---- MODULE Spec2Model ----
(***************************************************************************)
(* Wii Remote poll-and-format scripts: pi/wii_remote_reader.py (class      *)
(* WiiRemoteReader, "reader" variant) and pi/simple_wii_example.py         *)
(* ("simple" variant).  Each Python statement group that can be separated  *)
(* from the next by an asynchronous KeyboardInterrupt or by an update of   *)
(* the driver's latest state is one step (one value of pc).                *)
(***************************************************************************)
EXTENDS Integers, Sequences, FiniteSets, TLC

VARIABLES
    variant,     \* "reader" | "simple": which script runs
    caller,      \* "main": the script's main(); "client": code calling the class's methods
    pc,          \* position in the code
    wiimote,     \* self.wiimote (reader) / local wiimote (simple): "None" | "handle"
    connected,   \* self.connected
    running,     \* self.running
    opened,      \* cwiid.Wiimote() has returned the current handle
    closes,      \* close() calls made on the current handle
    attempts,    \* cwiid.Wiimote() calls made
    rpt_mode,    \* handle.rpt_mode, as the set of RPT_* flags or-ed together
    led,         \* handle.led, as the set of LED flags
    rumble,      \* handle.rumble
    rumbleLog,   \* the values written to handle.rumble, in order
    dev,         \* the driver's latest state (kept fresh by the driver's thread)
    state,       \* local `state` of read_inputs
    buttons,     \* local `buttons`
    battery,     \* value returned by get_battery_level() in this cycle
    frame,       \* the frame printed by the last completed cycle
    reads,       \* reads of wiimote.state in the current cycle
    polls,       \* snapshots polled at the top of a cycle, in total
    out,         \* the kinds of messages printed so far
    pending,     \* exception propagating out of main
    cause,       \* what first ended the session
    causeAt,     \* pc at which that happened
    homePolled,  \* a polled snapshot had the HOME bit set
    interrupts   \* KeyboardInterrupts delivered

vars == <<variant, caller, pc, wiimote, connected, running, opened, closes,
          attempts, rpt_mode, led, rumble, rumbleLog, dev, state, buttons,
          battery, frame, reads, polls, out, pending, cause, causeAt,
          homePolled, interrupts>>

----------------------------------------------------------------------------
(* Bounds of the model *)

MaxPolls == 3        \* snapshots polled in one run
MaxInterrupts == 2   \* Ctrl+C presses in one run
MaxCalls == 2        \* calls a client makes to one method of the class
MaskBits == 13       \* width of the button bitmasks enumerated for formatting

----------------------------------------------------------------------------
(* cwiid button codes (single-bit masks of the driver) *)

BTN_2 == 1
BTN_1 == 2
BTN_B == 4
BTN_A == 8
BTN_MINUS == 16
BTN_HOME == 128
BTN_LEFT == 256
BTN_RIGHT == 512
BTN_DOWN == 1024
BTN_UP == 2048
BTN_PLUS == 4096

RECURSIVE BitAnd(_, _)
\* Python's a & b on non-negative integers
BitAnd(a, b) ==
    IF a = 0 \/ b = 0 THEN 0
    ELSE 2 * BitAnd(a \div 2, b \div 2) + (IF a % 2 = 1 /\ b % 2 = 1 THEN 1 ELSE 0)

RECURSIVE Pow2(_)
Pow2(n) == IF n = 0 THEN 1 ELSE 2 * Pow2(n - 1)

----------------------------------------------------------------------------
(* Formatting: WiiRemoteReader.get_button_name, format_accelerometer,       *)
(* format_ir, get_battery_level and the frame built by read_inputs          *)

get_button_name_swapped(button) ==
    CASE button = BTN_1 -> "1"
      [] button = BTN_2 -> "2"
      [] button = BTN_A -> "B"
      [] button = BTN_B -> "A"
      [] button = BTN_PLUS -> "PLUS"
      [] button = BTN_MINUS -> "MINUS"
      [] button = BTN_HOME -> "HOME"
      [] button = BTN_LEFT -> "LEFT"
      [] button = BTN_RIGHT -> "RIGHT"
      [] button = BTN_UP -> "UP"
      [] button = BTN_DOWN -> "DOWN"
      [] OTHER -> "UNKNOWN"

get_button_name(button) ==
    CASE button = BTN_1 -> "1"
      [] button = BTN_2 -> "2"
      [] button = BTN_A -> "A"
      [] button = BTN_B -> "B"
      [] button = BTN_PLUS -> "PLUS"
      [] button = BTN_MINUS -> "MINUS"
      [] button = BTN_HOME -> "HOME"
      [] button = BTN_LEFT -> "LEFT"
      [] button = BTN_RIGHT -> "RIGHT"
      [] button = BTN_UP -> "UP"
      [] button = BTN_DOWN -> "DOWN"
      [] OTHER -> "UNKNOWN"

\* the list iterated by read_inputs, in its declared order
ButtonOrder ==
    <<BTN_1, BTN_2, BTN_A, BTN_B, BTN_PLUS, BTN_MINUS, BTN_HOME,
      BTN_LEFT, BTN_RIGHT, BTN_UP, BTN_DOWN>>

RECURSIVE PressedFrom(_, _)
\* the for loop appending get_button_name(button_code) when buttons & button_code
PressedFrom(b, i) ==
    IF i > Len(ButtonOrder) THEN <<>>
    ELSE (IF BitAnd(b, ButtonOrder[i]) # 0
             THEN <<get_button_name(ButtonOrder[i])>>
             ELSE <<>>) \o PressedFrom(b, i + 1)

\* the text after "Buttons: ": the joined labels, or the sentinel None
ButtonsLine(b) ==
    IF b # 0
    THEN LET pressed_buttons == PressedFrom(b, 1)
         IN  IF pressed_buttons # <<>> THEN pressed_buttons ELSE <<"None">>
    ELSE <<"None">>

\* f"X: {x:3d}, Y: {y:3d}, Z: {z:3d}"
format_accelerometer(acc) == <<"X", acc[1], "Y", acc[2], "Z", acc[3]>>

RECURSIVE IrFrom(_, _)
IrFrom(ir, i) ==
    IF i > Len(ir) THEN <<>>
    ELSE (IF ir[i] # <<>>
             THEN <<<<"Source", i, ir[i][1], ir[i][2], ir[i][3]>>>>
             ELSE <<>>) \o IrFrom(ir, i + 1)

\* an absent slot (None) is the empty tuple
format_ir(ir) ==
    IF ir = <<>> THEN <<"No IR sources detected">>
    ELSE LET ir_data == IrFrom(ir, 1)
         IN  IF ir_data # <<>> THEN ir_data ELSE <<"No IR sources detected">>

\* self.wiimote.state['battery'] * 100, or 0 without a handle
get_battery_level(w, s) == IF w # "None" THEN s.battery * 100 ELSE 0

\* the lines of one frame; batt is what get_battery_level() returned
RenderFrame(s, batt) ==
    [battery |-> batt,
     buttons |-> ButtonsLine(s.buttons),
     acc     |-> format_accelerometer(s.acc),
     ir      |-> format_ir(s.ir_src),
     raw     |-> s.buttons]

----------------------------------------------------------------------------
(* The driver's state snapshots used in the lifecycle model *)

NoIr == <<<<>>, <<>>, <<>>, <<>>>>
OneIr == <<<<>>, <<300, 200, 3>>, <<>>, <<>>>>

Snapshots ==
    { [buttons |-> 0,                battery |-> 1, acc |-> <<120, 121, 145>>, ir_src |-> NoIr],
      [buttons |-> 0,                battery |-> 0, acc |-> <<120, 121, 145>>, ir_src |-> OneIr],
      [buttons |-> BTN_A,            battery |-> 1, acc |-> <<100, 130, 140>>, ir_src |-> NoIr],
      [buttons |-> BTN_A + BTN_HOME, battery |-> 1, acc |-> <<120, 121, 145>>, ir_src |-> OneIr],
      [buttons |-> BTN_1 + BTN_2,    battery |-> 0, acc |-> <<120, 121, 145>>, ir_src |-> <<>>] }

NoState == [buttons |-> 0, battery |-> 0, acc |-> <<0, 0, 0>>, ir_src |-> <<>>]
NoFrame == [battery |-> 0, buttons |-> <<>>, acc |-> <<>>, ir |-> <<>>, raw |-> 0]

ReadOutcomes == {"ok", "RuntimeError", "Exception"}

handleVars == <<opened, closes, attempts, rpt_mode, led, rumble, rumbleLog>>
objVars == <<wiimote, connected, running>>
loopVars == <<state, buttons, battery, frame, reads, polls, homePolled>>
exitVars == <<pending, cause, causeAt>>
fixedVars == <<variant, caller>>

\* records what first ended the session
Ends(c) ==
    IF cause = "none"
    THEN cause' = c /\ causeAt' = pc
    ELSE UNCHANGED <<cause, causeAt>>

----------------------------------------------------------------------------
(* WiiRemoteReader.connect / disconnect / start                            *)

ReaderRptMode_noIR == {"RPT_BTN", "RPT_ACC"}

\* cwiid.RPT_BTN | cwiid.RPT_ACC | cwiid.RPT_IR
ReaderRptMode == {"RPT_BTN", "RPT_ACC", "RPT_IR"}

StartAfterConnect_always(ok) == "r_banner"

\* start: read_inputs() under try/finally only if connect() returned True
StartAfterConnect(ok) == IF ok THEN "r_banner" ELSE "r_noconn"

\* where connect() returns to
ConnectReturns(ok) ==
    pc' = IF caller = "main" THEN StartAfterConnect(ok) ELSE "idle"

\* except RuntimeError in connect: two messages, return False
ConnectFails(c) ==
    /\ out' = out \cup {"failed_connect", "guidance"}
    /\ Ends(c)
    /\ ConnectReturns(FALSE)
    /\ UNCHANGED pending

\* main() and the first line of connect()
Reader_main ==
    /\ pc = "r_main"
    /\ pc' = "r_connect"
    /\ out' = out \cup {"press_1_2"}
    /\ UNCHANGED <<fixedVars, objVars, handleVars, dev, loopVars, exitVars, interrupts>>

\* self.wiimote = cwiid.Wiimote(); self.connected = True
Connect_open ==
    /\ pc = "r_connect"
    /\ attempts' = attempts + 1
    /\ \E ok \in BOOLEAN :
         IF ok
         THEN /\ wiimote' = "handle"
              /\ connected' = TRUE
              /\ opened' = TRUE
              /\ closes' = 0
              /\ rpt_mode' = {}
              /\ led' = {}
              /\ rumble' = 0
              /\ rumbleLog' = <<>>
              /\ out' = out \cup {"connected"}
              /\ pc' = "r_cfg_rpt"
              /\ UNCHANGED <<running, exitVars>>
         ELSE /\ ConnectFails("connect_fail")
              /\ UNCHANGED <<objVars, opened, closes, rpt_mode, led, rumble, rumbleLog>>
    /\ UNCHANGED <<fixedVars, dev, loopVars, interrupts>>

\* self.wiimote.rpt_mode = ...
Connect_rpt ==
    /\ pc = "r_cfg_rpt"
    /\ \E ok \in BOOLEAN :
         IF ok
         THEN /\ rpt_mode' = ReaderRptMode
              /\ pc' = "r_cfg_led"
              /\ UNCHANGED <<out, exitVars>>
         ELSE /\ ConnectFails("config_fail")
              /\ UNCHANGED rpt_mode
    /\ UNCHANGED <<fixedVars, objVars, opened, closes, attempts, led, rumble,
                   rumbleLog, dev, loopVars, interrupts>>

\* self.wiimote.led = cwiid.LED1_ON
Connect_led ==
    /\ pc = "r_cfg_led"
    /\ \E ok \in BOOLEAN :
         IF ok
         THEN /\ led' = {"LED1_ON"}
              /\ pc' = "r_rumble_on"
              /\ UNCHANGED <<out, exitVars>>
         ELSE /\ ConnectFails("config_fail")
              /\ UNCHANGED led
    /\ UNCHANGED <<fixedVars, objVars, opened, closes, attempts, rpt_mode, rumble,
                   rumbleLog, dev, loopVars, interrupts>>

\* self.wiimote.rumble = 1
Connect_rumble_on ==
    /\ pc = "r_rumble_on"
    /\ \E ok \in BOOLEAN :
         IF ok
         THEN /\ rumble' = 1
              /\ rumbleLog' = Append(rumbleLog, 1)
              /\ pc' = "r_pause"
              /\ UNCHANGED <<out, exitVars>>
         ELSE /\ ConnectFails("config_fail")
              /\ UNCHANGED <<rumble, rumbleLog>>
    /\ UNCHANGED <<fixedVars, objVars, opened, closes, attempts, rpt_mode, led,
                   dev, loopVars, interrupts>>

\* time.sleep(0.5)
Connect_pause ==
    /\ pc = "r_pause"
    /\ pc' = "r_rumble_off"
    /\ UNCHANGED <<fixedVars, objVars, handleVars, dev, loopVars, out, exitVars, interrupts>>

\* self.wiimote.rumble = 0; return True
Connect_rumble_off ==
    /\ pc = "r_rumble_off"
    /\ \E ok \in BOOLEAN :
         IF ok
         THEN /\ rumble' = 0
              /\ rumbleLog' = Append(rumbleLog, 0)
              /\ ConnectReturns(TRUE)
              /\ UNCHANGED <<out, exitVars>>
         ELSE /\ ConnectFails("config_fail")
              /\ UNCHANGED <<rumble, rumbleLog>>
    /\ UNCHANGED <<fixedVars, objVars, opened, closes, attempts, rpt_mode, led,
                   dev, loopVars, interrupts>>

\* what close() can do: it succeeds on an open handle; on a handle already
\* closed the driver may accept the call or raise
CloseOutcomes == IF closes = 0 THEN {"ok"} ELSE {"ok", "RuntimeError"}

\* WiiRemoteReader.disconnect
disconnect(outcome) ==
    IF wiimote # "None"
    THEN /\ closes' = closes + 1
         /\ IF outcome = "ok"
            THEN /\ connected' = FALSE
                 /\ out' = out \cup {"disconnected"}
                 /\ UNCHANGED pending
            ELSE /\ pending' = outcome
                 /\ UNCHANGED <<connected, out>>
    ELSE UNCHANGED <<closes, connected, out, pending>>

\* start: else branch
Reader_noconn ==
    /\ pc = "r_noconn"
    /\ out' = out \cup {"could_not_connect"}
    /\ pc' = "done"
    /\ UNCHANGED <<fixedVars, objVars, handleVars, dev, loopVars, exitVars, interrupts>>

\* start: finally: self.disconnect()
Reader_finally ==
    /\ pc = "r_finally"
    /\ \E outcome \in CloseOutcomes : disconnect(outcome)
    /\ pc' = "done"
    /\ UNCHANGED <<fixedVars, wiimote, running, opened, attempts, rpt_mode, led,
                   rumble, rumbleLog, dev, loopVars, cause, causeAt, interrupts>>

----------------------------------------------------------------------------
(* WiiRemoteReader.read_inputs                                             *)

HasHome(b) == BitAnd(b, BTN_HOME) # 0

\* banner prints; self.running = True (outside the loop's try)
Reader_banner ==
    /\ pc = "r_banner"
    /\ running' = TRUE
    /\ out' = out \cup {"banner"}
    /\ pc' = "r_loop_head"
    /\ UNCHANGED <<fixedVars, wiimote, connected, handleVars, dev, loopVars,
                   exitVars, interrupts>>

\* while self.running and self.connected
Reader_loop_head ==
    /\ pc = "r_loop_head"
    /\ IF running /\ connected
       THEN pc' = "r_read" /\ reads' = 0
       ELSE pc' = "r_finally" /\ UNCHANGED reads
    /\ UNCHANGED <<fixedVars, objVars, handleVars, dev, state, buttons, battery,
                   frame, polls, homePolled, out, exitVars, interrupts>>

\* except Exception as e: print("Error reading input: ..."); break
ReaderReadFails ==
    /\ out' = out \cup {"read_error"}
    /\ Ends("read_fail")
    /\ pc' = "r_finally"
    /\ UNCHANGED pending

\* state = self.wiimote.state
Reader_read ==
    /\ pc = "r_read"
    /\ polls < MaxPolls
    /\ \E r \in ReadOutcomes :
         IF r = "ok"
         THEN /\ state' = dev
              /\ reads' = reads + 1
              /\ polls' = polls + 1
              /\ homePolled' = (homePolled \/ HasHome(dev.buttons))
              /\ pc' = "r_battery"
              /\ UNCHANGED <<out, exitVars>>
         ELSE /\ ReaderReadFails
              /\ UNCHANGED <<state, reads, polls, homePolled>>
    /\ UNCHANGED <<fixedVars, objVars, handleVars, dev, buttons, battery, frame,
                   interrupts>>

\* clear screen, header, print(f"Battery: {self.get_battery_level():.1f}%"):
\* get_battery_level reads self.wiimote.state again
Reader_battery ==
    /\ pc = "r_battery"
    /\ \E r \in ReadOutcomes :
         IF r = "ok"
         THEN /\ battery' = get_battery_level(wiimote, dev)
              /\ reads' = reads + 1
              /\ pc' = "r_render"
              /\ UNCHANGED <<out, exitVars>>
         ELSE /\ ReaderReadFails
              /\ UNCHANGED <<battery, reads>>
    /\ UNCHANGED <<fixedVars, objVars, handleVars, dev, state, buttons, frame,
                   polls, homePolled, interrupts>>

\* buttons, accelerometer, IR and raw lines, all from the local `state`
Reader_render ==
    /\ pc = "r_render"
    /\ buttons' = state.buttons
    /\ frame' = RenderFrame(state, battery)
    /\ pc' = "r_sleep"
    /\ UNCHANGED <<fixedVars, objVars, handleVars, dev, state, battery, reads,
                   polls, homePolled, out, exitVars, interrupts>>

\* time.sleep(0.1), back to the loop condition
Reader_sleep ==
    /\ pc = "r_sleep"
    /\ pc' = "r_loop_head"
    /\ UNCHANGED <<fixedVars, objVars, handleVars, dev, loopVars, out, exitVars,
                   interrupts>>

----------------------------------------------------------------------------
(* simple_wii_example.main                                                 *)

SimpleRptMode == {"RPT_BTN"}

SimpleLoopExit_never(b) == FALSE

\* if buttons & cwiid.BTN_HOME: ... break
SimpleLoopExit(b) == HasHome(b)

\* except RuntimeError: one message; then finally
SimpleRuntimeError(c) ==
    /\ out' = out \cup {"failed_connect", "guidance"}
    /\ Ends(c)
    /\ pc' = "s_finally"
    /\ UNCHANGED pending

\* the two prints before the try
Simple_main ==
    /\ pc = "s_main"
    /\ pc' = "s_connect"
    /\ out' = out \cup {"press_1_2"}
    /\ UNCHANGED <<fixedVars, objVars, handleVars, dev, loopVars, exitVars, interrupts>>

\* wiimote = cwiid.Wiimote()
Simple_open ==
    /\ pc = "s_connect"
    /\ attempts' = attempts + 1
    /\ \E ok \in BOOLEAN :
         IF ok
         THEN /\ wiimote' = "handle"
              /\ opened' = TRUE
              /\ closes' = 0
              /\ rpt_mode' = {}
              /\ led' = {}
              /\ rumble' = 0
              /\ rumbleLog' = <<>>
              /\ out' = out \cup {"connected"}
              /\ pc' = "s_cfg_rpt"
              /\ UNCHANGED exitVars
         ELSE /\ SimpleRuntimeError("connect_fail")
              /\ UNCHANGED <<wiimote, opened, closes, rpt_mode, led, rumble, rumbleLog>>
    /\ UNCHANGED <<fixedVars, connected, running, dev, loopVars, interrupts>>

\* wiimote.rpt_mode = cwiid.RPT_BTN
Simple_rpt ==
    /\ pc = "s_cfg_rpt"
    /\ \E ok \in BOOLEAN :
         IF ok
         THEN /\ rpt_mode' = SimpleRptMode
              /\ pc' = "s_cfg_led"
              /\ UNCHANGED <<out, exitVars>>
         ELSE /\ SimpleRuntimeError("config_fail")
              /\ UNCHANGED rpt_mode
    /\ UNCHANGED <<fixedVars, objVars, opened, closes, attempts, led, rumble,
                   rumbleLog, dev, loopVars, interrupts>>

\* wiimote.led = cwiid.LED1_ON
Simple_led ==
    /\ pc = "s_cfg_led"
    /\ \E ok \in BOOLEAN :
         IF ok
         THEN /\ led' = {"LED1_ON"}
              /\ pc' = "s_rumble_on"
              /\ UNCHANGED <<out, exitVars>>
         ELSE /\ SimpleRuntimeError("config_fail")
              /\ UNCHANGED led
    /\ UNCHANGED <<fixedVars, objVars, opened, closes, attempts, rpt_mode, rumble,
                   rumbleLog, dev, loopVars, interrupts>>

\* wiimote.rumble = 1
Simple_rumble_on ==
    /\ pc = "s_rumble_on"
    /\ \E ok \in BOOLEAN :
         IF ok
         THEN /\ rumble' = 1
              /\ rumbleLog' = Append(rumbleLog, 1)
              /\ pc' = "s_pause"
              /\ UNCHANGED <<out, exitVars>>
         ELSE /\ SimpleRuntimeError("config_fail")
              /\ UNCHANGED <<rumble, rumbleLog>>
    /\ UNCHANGED <<fixedVars, objVars, opened, closes, attempts, rpt_mode, led,
                   dev, loopVars, interrupts>>

\* time.sleep(0.5)
Simple_pause ==
    /\ pc = "s_pause"
    /\ pc' = "s_rumble_off"
    /\ UNCHANGED <<fixedVars, objVars, handleVars, dev, loopVars, out, exitVars, interrupts>>

\* wiimote.rumble = 0
Simple_rumble_off ==
    /\ pc = "s_rumble_off"
    /\ \E ok \in BOOLEAN :
         IF ok
         THEN /\ rumble' = 0
              /\ rumbleLog' = Append(rumbleLog, 0)
              /\ pc' = "s_banner"
              /\ UNCHANGED <<out, exitVars>>
         ELSE /\ SimpleRuntimeError("config_fail")
              /\ UNCHANGED <<rumble, rumbleLog>>
    /\ UNCHANGED <<fixedVars, objVars, opened, closes, attempts, rpt_mode, led,
                   dev, loopVars, interrupts>>

\* print("Press buttons on your Wii remote (Ctrl+C to exit)")
Simple_banner ==
    /\ pc = "s_banner"
    /\ out' = out \cup {"banner"}
    /\ pc' = "s_read"
    /\ UNCHANGED <<fixedVars, objVars, handleVars, dev, loopVars, exitVars, interrupts>>

\* buttons = wiimote.state['buttons']; a RuntimeError lands in the handler
\* of the connection failure, any other exception leaves main after finally
Simple_read ==
    /\ pc = "s_read"
    /\ polls < MaxPolls
    /\ \E r \in ReadOutcomes :
         CASE r = "ok" ->
                /\ buttons' = dev.buttons
                /\ reads' = 1
                /\ polls' = polls + 1
                /\ homePolled' = (homePolled \/ HasHome(dev.buttons))
                /\ pc' = "s_check"
                /\ UNCHANGED <<out, exitVars>>
           [] r = "RuntimeError" ->
                /\ SimpleRuntimeError("read_fail")
                /\ UNCHANGED <<buttons, reads, polls, homePolled>>
           [] OTHER ->
                /\ pending' = r
                /\ Ends("read_fail")
                /\ pc' = "s_finally"
                /\ UNCHANGED <<out, buttons, reads, polls, homePolled>>
    /\ UNCHANGED <<fixedVars, objVars, handleVars, dev, state, battery, frame,
                   interrupts>>

\* the messages printed for a bitmask by the chain of ifs
SimplePrints(b) ==
    (IF BitAnd(b, BTN_A) # 0 THEN {"A button pressed!"} ELSE {})
    \cup (IF BitAnd(b, BTN_B) # 0 THEN {"B button pressed!"} ELSE {})
    \cup (IF BitAnd(b, BTN_1) # 0 THEN {"1 button pressed!"} ELSE {})
    \cup (IF BitAnd(b, BTN_2) # 0 THEN {"2 button pressed!"} ELSE {})
    \cup (IF BitAnd(b, BTN_HOME) # 0 THEN {"HOME button pressed!"} ELSE {})

\* the ifs on buttons; break on HOME
Simple_check ==
    /\ pc = "s_check"
    /\ out' = out \cup SimplePrints(buttons)
    /\ IF SimpleLoopExit(buttons)
       THEN /\ pc' = "s_finally"
            /\ Ends("home")
       ELSE /\ pc' = "s_sleep"
            /\ UNCHANGED <<cause, causeAt>>
    /\ UNCHANGED <<fixedVars, objVars, handleVars, dev, loopVars, pending, interrupts>>

\* time.sleep(0.1)
Simple_sleep ==
    /\ pc = "s_sleep"
    /\ pc' = "s_read"
    /\ UNCHANGED <<fixedVars, objVars, handleVars, dev, loopVars, out, exitVars,
                   interrupts>>

\* finally: if 'wiimote' in locals(): wiimote.close()
Simple_finally ==
    /\ pc = "s_finally"
    /\ IF wiimote # "None" THEN closes' = closes + 1 ELSE UNCHANGED closes
    /\ pc' = "done"
    /\ UNCHANGED <<fixedVars, objVars, opened, attempts, rpt_mode, led, rumble,
                   rumbleLog, dev, loopVars, out, exitVars, interrupts>>

----------------------------------------------------------------------------
(* KeyboardInterrupt, the driver's thread, and a client of the class        *)

\* reader: statements with no enclosing handler for KeyboardInterrupt and no finally
ReaderUnprotected ==
    {"r_main", "r_connect", "r_cfg_rpt", "r_cfg_led", "r_rumble_on", "r_pause",
     "r_rumble_off", "r_noconn"}
\* reader: inside start's try/finally but outside the loop's try
ReaderInStartTry == {"r_banner", "r_loop_head"}
\* reader: inside the loop's try/except KeyboardInterrupt
ReaderInLoopTry == {"r_read", "r_battery", "r_render", "r_sleep"}
\* simple: inside main's try/except KeyboardInterrupt/finally
SimpleInTry ==
    {"s_connect", "s_cfg_rpt", "s_cfg_led", "s_rumble_on", "s_pause", "s_rumble_off",
     "s_banner", "s_read", "s_check", "s_sleep"}
\* simple: before the try, or already inside the finally block
SimpleUnprotected == {"s_main", "s_finally"}

\* Ctrl+C, delivered at the statement pc points to
Interrupt ==
    /\ caller = "main"
    /\ interrupts < MaxInterrupts
    /\ pc \in ReaderUnprotected \cup ReaderInStartTry \cup ReaderInLoopTry
              \cup {"r_finally"} \cup SimpleInTry \cup SimpleUnprotected
    /\ interrupts' = interrupts + 1
    /\ Ends("interrupt")
    /\ CASE pc \in ReaderInLoopTry ->
              \* except KeyboardInterrupt: print, self.running = False, break
              /\ out' = out \cup {"exiting"}
              /\ running' = FALSE
              /\ pc' = "r_finally"
              /\ UNCHANGED pending
         [] pc \in ReaderInStartTry ->
              \* propagates through start's finally
              /\ pending' = "KeyboardInterrupt"
              /\ pc' = "r_finally"
              /\ UNCHANGED <<out, running>>
         [] pc \in SimpleInTry ->
              \* except KeyboardInterrupt: print; then finally
              /\ out' = out \cup {"exiting"}
              /\ pc' = "s_finally"
              /\ UNCHANGED <<pending, running>>
         [] OTHER ->
              \* nothing catches it: it leaves main
              /\ pending' = "KeyboardInterrupt"
              /\ pc' = "done"
              /\ UNCHANGED <<out, running>>
    /\ UNCHANGED <<fixedVars, wiimote, connected, handleVars, dev, loopVars>>

\* the driver's own thread replaces the latest state of an open handle
DriverUpdate ==
    /\ opened
    /\ closes = 0
    /\ pc # "done"
    /\ \E s \in Snapshots \ {dev} : dev' = s
    /\ UNCHANGED <<fixedVars, pc, objVars, handleVars, loopVars, out, exitVars,
                   interrupts>>

\* a client calls reader.connect()
Client_connect ==
    /\ pc = "idle"
    /\ attempts < MaxCalls
    /\ pc' = "r_connect"
    /\ out' = out \cup {"press_1_2"}
    /\ UNCHANGED <<fixedVars, objVars, handleVars, dev, loopVars, exitVars, interrupts>>

\* a client calls reader.disconnect()
Client_disconnect ==
    /\ pc = "idle"
    /\ closes < MaxCalls
    /\ \E outcome \in CloseOutcomes : disconnect(outcome)
    /\ UNCHANGED <<fixedVars, pc, wiimote, running, opened, attempts, rpt_mode, led,
                   rumble, rumbleLog, dev, loopVars, cause, causeAt, interrupts>>

----------------------------------------------------------------------------
(* Specifications *)

InitCommon ==
    /\ wiimote = "None"
    /\ connected = FALSE
    /\ running = FALSE
    /\ opened = FALSE
    /\ closes = 0
    /\ attempts = 0
    /\ rpt_mode = {}
    /\ led = {}
    /\ rumble = 0
    /\ rumbleLog = <<>>
    /\ dev \in Snapshots
    /\ state = NoState
    /\ buttons = 0
    /\ battery = 0
    /\ frame = NoFrame
    /\ reads = 0
    /\ polls = 0
    /\ out = {}
    /\ pending = "none"
    /\ cause = "none"
    /\ causeAt = "none"
    /\ homePolled = FALSE
    /\ interrupts = 0

\* either script, started from its main()
Init ==
    /\ variant \in {"reader", "simple"}
    /\ caller = "main"
    /\ pc = IF variant = "reader" THEN "r_main" ELSE "s_main"
    /\ InitCommon

Next ==
    \/ Reader_main \/ Connect_open \/ Connect_rpt \/ Connect_led
    \/ Connect_rumble_on \/ Connect_pause \/ Connect_rumble_off
    \/ Reader_noconn \/ Reader_banner \/ Reader_loop_head \/ Reader_read
    \/ Reader_battery \/ Reader_render \/ Reader_sleep \/ Reader_finally
    \/ Simple_main \/ Simple_open \/ Simple_rpt \/ Simple_led
    \/ Simple_rumble_on \/ Simple_pause \/ Simple_rumble_off \/ Simple_banner
    \/ Simple_read \/ Simple_check \/ Simple_sleep \/ Simple_finally
    \/ Interrupt \/ DriverUpdate

Spec == Init /\ [][Next]_vars

\* a WiiRemoteReader object whose connect() and disconnect() a client calls
InitApi ==
    /\ variant = "reader"
    /\ caller = "client"
    /\ pc = "idle"
    /\ InitCommon

NextApi ==
    \/ Client_connect \/ Connect_open \/ Connect_rpt \/ Connect_led
    \/ Connect_rumble_on \/ Connect_pause \/ Connect_rumble_off
    \/ Client_disconnect \/ DriverUpdate

SpecApi == InitApi /\ [][NextApi]_vars

\* the reader about to render a polled snapshot, for every button bitmask
\* of MaskBits bits
InitFmt ==
    /\ variant = "reader"
    /\ caller = "main"
    /\ pc = "r_render"
    /\ wiimote = "handle"
    /\ connected = TRUE
    /\ running = TRUE
    /\ opened = TRUE
    /\ closes = 0
    /\ attempts = 1
    /\ rpt_mode = ReaderRptMode
    /\ led = {"LED1_ON"}
    /\ rumble = 0
    /\ rumbleLog = <<1, 0>>
    /\ \E b \in 0 .. (Pow2(MaskBits) - 1), s \in Snapshots :
         state = [s EXCEPT !.buttons = b]
    /\ dev = state
    /\ buttons = 0
    /\ battery = get_battery_level(wiimote, state)
    /\ frame = NoFrame
    /\ reads = 2
    /\ polls = 1
    /\ out = {"press_1_2", "connected", "banner"}
    /\ pending = "none"
    /\ cause = "none"
    /\ causeAt = "none"
    /\ homePolled = HasHome(state.buttons)
    /\ interrupts = 0

NextFmt == Reader_render

SpecFmt == InitFmt /\ [][NextFmt]_vars

----------------------------------------------------------------------------
(* Properties *)

\* positions inside the poll loop (read_inputs from its banner on; the
\* while loop of the simple script from its banner on)
InLoop ==
    ReaderInStartTry \cup ReaderInLoopTry \cup {"s_banner", "s_read", "s_check", "s_sleep"}

\* the session ended for exactly one reason: one Ctrl+C, or HOME or a read
\* failure with no Ctrl+C at all
InterruptOnly == cause = "interrupt" /\ interrupts = 1
NoInterrupt == interrupts = 0

\* C1: in both variants, once cwiid.Wiimote() has returned a handle, close()
\* is called on it exactly once before the process ends, whether the session
\* ended by HOME, by an interrupt after the handle was obtained, or by an
\* exception while reading state.
C1_ReleasedExactlyOnce ==
    (/\ pc = "done"
     /\ opened
     /\ \/ InterruptOnly
        \/ (NoInterrupt /\ cause \in {"home", "read_fail"}))
    => closes = 1

\* C2 as claimed: in both variants, once a polled snapshot had the HOME bit
\* set, no further snapshot is polled.
C2_HomeEndsLoopBoth == [][homePolled => polls' = polls]_vars

\* C2 as amended: in the simple variant, once a polled snapshot had the HOME
\* bit set, the loop is left in that iteration (the program goes on to the
\* check, the finally block and the end only) and no further snapshot is
\* polled.
C2_HomeEndsLoopSimple ==
    [][(variant = "simple" /\ homePolled)
         => (polls' = polls /\ pc' \in {"s_check", "s_finally", "done"})]_vars

C2_Witness ==
    /\ variant = "simple"
    /\ homePolled
    /\ cause = "home"
    /\ "HOME button pressed!" \in out
    /\ pc = "done"
    /\ closes = 1

\* C3: in both variants an interrupt delivered while the session is connected
\* (anywhere from the loop's banner to the loop's end) is caught: "Exiting..."
\* is printed, the handle is released and no exception leaves main.
C3_InterruptIsGraceful ==
    (/\ pc = "done"
     /\ InterruptOnly
     /\ causeAt \in InLoop)
    => (/\ "exiting" \in out
        /\ closes = 1
        /\ pending = "none")

\* C4: if cwiid.Wiimote() fails with RuntimeError, a guidance message is
\* printed, no state is ever polled, the poll loop is never entered, connect
\* is not attempted again and the program only moves on to its end; and the
\* poll loop is entered only after a connect that succeeded completely.
C4_ConnectFailureEnds ==
    /\ cause = "connect_fail"
         => /\ "guidance" \in out
            /\ polls = 0
            /\ reads = 0
            /\ attempts = 1
            /\ ~opened
            /\ pc \in {"r_noconn", "s_finally", "done"}
    /\ pc \in InLoop
         => /\ opened
            /\ closes = 0
            /\ rumbleLog = <<1, 0>>
            /\ cause = "none"

C4_Witness ==
    /\ variant = "reader"
    /\ cause = "connect_fail"
    /\ pc = "done"
    /\ out = {"press_1_2", "failed_connect", "guidance", "could_not_connect"}
    /\ pending = "none"

\* C5: in both variants, a failure of the state read in the loop is reported
\* as a read failure (not as a connection failure, not as an uncaught
\* exception) and the handle is released before the process ends.
C5_ReadFailureReported ==
    (/\ pc = "done"
     /\ cause = "read_fail"
     /\ NoInterrupt)
    => (/\ "read_error" \in out
        /\ "failed_connect" \notin out
        /\ pending = "none"
        /\ closes = 1)

\* the labels in the order the claim declares, each with its driver bit
DeclaredLabels ==
    <<[label |-> "1", bit |-> BTN_1], [label |-> "2", bit |-> BTN_2],
      [label |-> "A", bit |-> BTN_A], [label |-> "B", bit |-> BTN_B],
      [label |-> "PLUS", bit |-> BTN_PLUS], [label |-> "MINUS", bit |-> BTN_MINUS],
      [label |-> "HOME", bit |-> BTN_HOME], [label |-> "LEFT", bit |-> BTN_LEFT],
      [label |-> "RIGHT", bit |-> BTN_RIGHT], [label |-> "UP", bit |-> BTN_UP],
      [label |-> "DOWN", bit |-> BTN_DOWN]>>

BitIsSet(B, bit) == (B \div bit) % 2 = 1

ExpectedLabels(B) ==
    LET set == SelectSeq(DeclaredLabels, LAMBDA e : BitIsSet(B, e.bit))
    IN  [i \in 1 .. Len(set) |-> set[i].label]

\* C6 as claimed: for every bitmask B the Buttons line lists exactly the
\* labels of the known buttons set in B, in the declared order, and shows
\* None if and only if B = 0.
C6_NoneIffZero ==
    pc = "r_sleep"
    => /\ (ExpectedLabels(frame.raw) # <<>> => frame.buttons = ExpectedLabels(frame.raw))
       /\ (frame.buttons = <<"None">>) <=> (frame.raw = 0)

\* C6 as amended: for every bitmask B the Buttons line lists exactly the
\* labels of the known buttons set in B, in the declared order, and shows
\* None if and only if no known button's bit is set in B.
C6_NoneIffNoKnownBit ==
    pc = "r_sleep"
    => /\ frame.raw = state.buttons
       /\ (ExpectedLabels(frame.raw) # <<>> => frame.buttons = ExpectedLabels(frame.raw))
       /\ (frame.buttons = <<"None">>) <=> (ExpectedLabels(frame.raw) = <<>>)

C6_Witness ==
    /\ pc = "r_sleep"
    /\ state.buttons = 96
    /\ frame.buttons = <<"None">>

\* C7: a second disconnect() after the handle has been released makes no
\* second close() call on the handle and does not fault.
C7_DisconnectIdempotent == closes <= 1 /\ pending = "none"

\* C8: in every poll cycle the device state is read exactly once and every
\* value of the rendered frame comes from that one snapshot.
C8_OneSnapshotPerFrame ==
    pc = "r_sleep"
    => /\ reads = 1
       /\ frame = RenderFrame(state, get_battery_level(wiimote, state))

BeforeFirstPoll ==
    /\ polls = 0
    /\ pc \in {"r_banner", "r_loop_head", "r_read", "s_banner", "s_read"}

\* C9 as claimed: in both variants, after a successful connect and before the
\* first poll, button, accelerometer and IR reporting are enabled, LED1 is on
\* and the vibration has been switched on and off again.
C9_AllChannelsBoth ==
    BeforeFirstPoll
    => /\ rpt_mode = {"RPT_BTN", "RPT_ACC", "RPT_IR"}
       /\ led = {"LED1_ON"}
       /\ rumbleLog = <<1, 0>>
       /\ rumble = 0

\* C9 as amended: after a successful connect and before the first poll, the
\* reader has button, accelerometer and IR reporting enabled and the simple
\* script button reporting only; in both LED1 is on and the vibration has
\* been switched on and off again.
C9_ChannelsPerVariant ==
    BeforeFirstPoll
    => /\ rpt_mode = IF variant = "reader"
                     THEN {"RPT_BTN", "RPT_ACC", "RPT_IR"}
                     ELSE {"RPT_BTN"}
       /\ led = {"LED1_ON"}
       /\ rumbleLog = <<1, 0>>
       /\ rumble = 0

C9_Witness ==
    /\ variant = "simple"
    /\ pc = "s_read"
    /\ polls = 0
    /\ rpt_mode = {"RPT_BTN"}

\* C10: whenever connect() has returned False, self.connected is False and
\* the reader holds no open, unreleased handle; and self.connected is True
\* only while an open, unreleased handle is held.
C10_ConnectedMeansOpenHandle ==
    /\ pc = "r_noconn" => (~connected /\ ~(opened /\ closes = 0))
    /\ connected => (opened /\ closes = 0)

====
